---------------------------- MODULE Spec2Model ----------------------------
(***************************************************************************)
(* Model of gbdxtools.workflow.Workflow: a client of the GBDX workflow     *)
(* HTTP API.  Every method issues one call on the injected session         *)
(* (self.gbdx_connection) and turns the response into a return value or    *)
(* an exception.                                                           *)
(*                                                                         *)
(* The session is the environment: the variable `transport` holds what it  *)
(* will do with the next request (raise, or answer with a status code and  *)
(* a body).  A method call is one action; it records in `last` the         *)
(* observable effects of the call in program order (`trace`: the session   *)
(* call, prints, debug log lines, reads of the response JSON) and how the  *)
(* call ended (`outcome`).                                                 *)
(***************************************************************************)
EXTENDS Integers, Sequences, FiniteSets

VARIABLES
    s3_info,    \* self.s3.info: the storage credentials' bucket and prefix
    py3,        \* TRUE iff the interpreter is Python 3 (the module supports 2 and 3)
    transport,  \* what self.gbdx_connection does with the next request
    last,       \* the most recent method call: op, args, trace, outcome
    handle      \* what the caller holds from its latest launch (an id or None)

vars == <<s3_info, py3, transport, last, handle>>

(***************************************************************************)
(* Bounds and input sets.                                                  *)
(***************************************************************************)
MaxEvents == 2

StatusCodes == {101, 200, 304, 404, 500}
WorkflowIds == {"4392617339332738708", "4392617339332738709"}
BatchIds == {"batch-1", "batch-2"}
TaskNames == {"AOP_Strip_Processor", "NoSuchTask"}
States == {"running", "not-a-known-state"}
EventRecords == {[type |-> "submitted"], [type |-> "scheduled"]}
S3Infos == {[bucket |-> "gbd-customer-data", prefix |-> "acct-1"],
            [bucket |-> "other-bucket", prefix |-> "acct-2"]}
Workflows == {[name |-> "wf", tasks |-> <<[name |-> "t1", taskType |-> "AOP_Strip_Processor"]>>],
              [name |-> "empty", tasks |-> <<>>]}
BatchWorkflows == {[name |-> "batch", batch_values |-> <<"a", "b">>]}

None == "None"
Idle == [op |-> "idle"]

(***************************************************************************)
(* How a call ends.                                                        *)
(***************************************************************************)
Return(v) == [kind |-> "value", value |-> v]
ReturnNone == [kind |-> "none"]
Raise(e) == [kind |-> "raise", exc |-> e, code |-> 0]
HTTPError(r) == [kind |-> "raise", exc |-> "HTTPError", code |-> r.status_code]

(***************************************************************************)
(* Effects of a call, in program order.                                    *)
(***************************************************************************)
PostJson(url, body) == [call |-> "post", url |-> url, json |-> body]
PostData(url, d) == [call |-> "post", url |-> url, data |-> d]
Post(url) == [call |-> "post", url |-> url]
Get(url) == [call |-> "get", url |-> url]
Stdout(fmt, arg) == [call |-> "print", fmt |-> fmt, arg |-> arg]
Debug(msg) == [call |-> "debug", msg |-> msg]
DebugFmt(fmt, arg) == [call |-> "debug", msg |-> fmt, arg |-> arg]
JsonRead == [call |-> "json"]

Done(tr, o) == [trace |-> tr, outcome |-> o]

(***************************************************************************)
(* The response object r of the session (requests.Response).               *)
(* r.form says what r.text is: "text" (not JSON), "array" (a JSON value    *)
(* that is no object) or "object"; r.body is the parsed value.             *)
(***************************************************************************)
\* r.raise_for_status() of requests.Response: raises HTTPError when
\* 400 <= status_code < 600 (client and server errors) and returns otherwise,
\* so a 1xx or 3xx response that reaches the caller passes it.
RaisesForStatus(r) == 400 <= r.status_code /\ r.status_code < 600

\* r.json(): the parsed body, or ValueError when r.text is not JSON
Json(r) == IF r.form = "text" THEN Raise("ValueError") ELSE Return(r.body)

\* r.json()[key]
JsonItem(r, key) ==
    IF Json(r).kind = "raise" THEN Json(r)
    ELSE IF r.form = "array" THEN Raise("TypeError")
    ELSE IF key \notin DOMAIN r.body THEN Raise("KeyError")
    ELSE Return(r.body[key])

(***************************************************************************)
(* The methods of Workflow.  Each takes its arguments and t, what the      *)
(* session does with the request, and yields the call's trace and outcome. *)
(***************************************************************************)
WorkflowsUrl == "https://geobigdata.io/workflows/v1/workflows"
TasksUrl == "https://geobigdata.io/workflows/v1/tasks"
BatchWorkflowsUrl == "https://geobigdata.io/workflows/v1/batch_workflows"

\* launch that prints nothing before it re-raises
launch_silent(workflow, t) ==
    LET sent == <<PostJson(WorkflowsUrl, workflow)>>
    IN  IF t.exc = "TypeError"
        THEN Done(sent \o <<Debug("Workflow not launched!")>>, ReturnNone)
        ELSE IF t.exc # "none" THEN Done(sent, Raise(t.exc))
        ELSE IF RaisesForStatus(t) THEN Done(sent, HTTPError(t))
        ELSE LET o == JsonItem(t, "id")
             IN  IF o.kind = "raise" /\ o.exc = "TypeError"
                 THEN Done(sent \o <<JsonRead, Debug("Workflow not launched!")>>, ReturnNone)
                 ELSE Done(sent \o <<JsonRead>>, o)

launch(workflow, t) ==
    LET sent == <<PostJson(WorkflowsUrl, workflow)>>
        swallowed == Done(sent \o <<Debug("Workflow not launched!")>>, ReturnNone)
    IN  IF t.exc = "TypeError" THEN swallowed
        ELSE IF t.exc # "none" THEN Done(sent, Raise(t.exc))
        ELSE IF RaisesForStatus(t)
        THEN Done(sent \o <<Stdout("GBDX API Status Code: %s", t.status_code),
                            Stdout("GBDX API Response: %s", t.text)>>,
                  HTTPError(t))
        ELSE LET o == JsonItem(t, "id")
             IN  IF o.kind = "raise" /\ o.exc = "TypeError"
                 THEN Done(sent \o <<JsonRead, Debug("Workflow not launched!")>>, ReturnNone)
                 ELSE Done(sent \o <<JsonRead>>, o)

\* status that accepts only the states it knows
status_validating(workflow_id, t) ==
    LET url == WorkflowsUrl \o "/" \o workflow_id
        sent == <<Debug("Get status of workflow: " \o workflow_id), Get(url)>>
        o == JsonItem(t, "state")
    IN  IF t.exc # "none" THEN Done(sent, Raise(t.exc))
        ELSE IF o.kind = "value" /\ o.value # "running"
        THEN Done(sent \o <<JsonRead>>, Raise("ValueError"))
        ELSE Done(sent \o <<JsonRead>>, o)

status(workflow_id, t) ==
    LET url == WorkflowsUrl \o "/" \o workflow_id
        sent == <<Debug("Get status of workflow: " \o workflow_id), Get(url)>>
    IN  IF t.exc # "none" THEN Done(sent, Raise(t.exc))
        ELSE Done(sent \o <<JsonRead>>, JsonItem(t, "state"))

\* events that hands the list back newest first
RECURSIVE Reverse(_)
Reverse(q) == IF q = <<>> THEN <<>> ELSE Reverse(Tail(q)) \o <<Head(q)>>
events_reversed(workflow_id, t) ==
    LET url == WorkflowsUrl \o "/" \o workflow_id \o "/events"
        sent == <<Debug("Get events of workflow: " \o workflow_id), Get(url)>>
        o == JsonItem(t, "Events")
    IN  IF t.exc # "none" THEN Done(sent, Raise(t.exc))
        ELSE IF o.kind = "value" THEN Done(sent \o <<JsonRead>>, Return(Reverse(o.value)))
        ELSE Done(sent \o <<JsonRead>>, o)

events(workflow_id, t) ==
    LET url == WorkflowsUrl \o "/" \o workflow_id \o "/events"
        sent == <<Debug("Get events of workflow: " \o workflow_id), Get(url)>>
    IN  IF t.exc # "none" THEN Done(sent, Raise(t.exc))
        ELSE Done(sent \o <<JsonRead>>, JsonItem(t, "Events"))

\* cancel without the call of raise_for_status
cancel_unchecked(workflow_id, t) ==
    LET url == WorkflowsUrl \o "/" \o workflow_id \o "/cancel"
        sent == <<Debug("Canceling workflow: " \o workflow_id), PostData(url, "")>>
    IN  IF t.exc # "none" THEN Done(sent, Raise(t.exc))
        ELSE Done(sent, ReturnNone)

cancel(workflow_id, t) ==
    LET url == WorkflowsUrl \o "/" \o workflow_id \o "/cancel"
        sent == <<Debug("Canceling workflow: " \o workflow_id), PostData(url, "")>>
    IN  IF t.exc # "none" THEN Done(sent, Raise(t.exc))
        ELSE IF RaisesForStatus(t) THEN Done(sent, HTTPError(t))
        ELSE Done(sent, ReturnNone)

list_tasks(t) ==
    LET sent == <<Get(TasksUrl)>>
    IN  IF t.exc # "none" THEN Done(sent, Raise(t.exc))
        ELSE IF RaisesForStatus(t) THEN Done(sent, HTTPError(t))
        ELSE Done(sent \o <<JsonRead>>, Json(t))

\* describe_task without the call of raise_for_status
describe_task_unchecked(task_name, t) ==
    LET sent == <<Get(TasksUrl \o "/" \o task_name)>>
    IN  IF t.exc # "none" THEN Done(sent, Raise(t.exc))
        ELSE Done(sent \o <<JsonRead>>, Json(t))

describe_task(task_name, t) ==
    LET sent == <<Get(TasksUrl \o "/" \o task_name)>>
    IN  IF t.exc # "none" THEN Done(sent, Raise(t.exc))
        ELSE IF RaisesForStatus(t) THEN Done(sent, HTTPError(t))
        ELSE Done(sent \o <<JsonRead>>, Json(t))

\* The handler of launch_batch_workflow's `except TypeError as e`: it formats
\* e.message into the debug line.  Python 3 exceptions have no attribute
\* `message`, so there the handler itself raises AttributeError.
BatchNotLaunched(sofar, message) ==
    IF py3 THEN Done(sofar, Raise("AttributeError"))
    ELSE Done(sofar \o <<DebugFmt("Batch Workflow not launched, reason: {0}", message)>>,
              ReturnNone)

launch_batch_workflow(batch_workflow, t) ==
    LET sent == <<PostJson(BatchWorkflowsUrl, batch_workflow)>>
    IN  IF t.exc = "TypeError" THEN BatchNotLaunched(sent, t.message)
        ELSE IF t.exc # "none" THEN Done(sent, Raise(t.exc))
        ELSE LET o == JsonItem(t, "batch_workflow_id")
             IN  IF o.kind = "raise" /\ o.exc = "TypeError"
                 THEN BatchNotLaunched(sent \o <<JsonRead>>, "list indices must be integers")
                 ELSE Done(sent \o <<JsonRead>>, o)

batch_workflow_status(batch_workflow_id, t) ==
    LET url == BatchWorkflowsUrl \o "/" \o batch_workflow_id
        sent == <<Debug("Get status of batch workflow: " \o batch_workflow_id), Get(url)>>
    IN  IF t.exc # "none" THEN Done(sent, Raise(t.exc))
        ELSE Done(sent \o <<JsonRead>>, Json(t))

\* batch_workflow_cancel with the status check the other calls make
batch_workflow_cancel_checked(batch_workflow_id, t) ==
    LET url == BatchWorkflowsUrl \o "/" \o batch_workflow_id \o "/cancel"
        sent == <<Debug("Cancel batch workflow: " \o batch_workflow_id), Post(url)>>
    IN  IF t.exc # "none" THEN Done(sent, Raise(t.exc))
        ELSE IF RaisesForStatus(t) THEN Done(sent, HTTPError(t))
        ELSE Done(sent \o <<JsonRead>>, Json(t))

batch_workflow_cancel(batch_workflow_id, t) ==
    LET url == BatchWorkflowsUrl \o "/" \o batch_workflow_id \o "/cancel"
        sent == <<Debug("Cancel batch workflow: " \o batch_workflow_id), Post(url)>>
    IN  IF t.exc # "none" THEN Done(sent, Raise(t.exc))
        ELSE Done(sent \o <<JsonRead>>, Json(t))

(***************************************************************************)
(* launch_aop_to_s3: the fixed two-task template and its substitutions.    *)
(***************************************************************************)
\* json.loads of the template text.  The first task's text gives the key
\* "containerDescriptors" twice with the same value; the parsed dict has it once.
AopToS3Template ==
    [tasks |-> <<
        [containerDescriptors |-> <<[properties |-> [domain |-> "raid"]]>>,
         name |-> "AOP",
         inputs |-> <<[name |-> "data", value |-> "INPUT_BUCKET"],
                      [name |-> "bands", value |-> "Auto"],
                      [name |-> "enable_acomp", value |-> "false"],
                      [name |-> "enable_dra", value |-> "false"],
                      [name |-> "ortho_epsg", value |-> "EPSG:4326"],
                      [name |-> "enable_pansharpen", value |-> "false"]>>,
         outputs |-> <<[name |-> "data"], [name |-> "log"]>>,
         timeout |-> 36000,
         taskType |-> "AOP_Strip_Processor"],
        [inputs |-> <<[source |-> "AOP:data", name |-> "data"],
                      [name |-> "destination", value |-> "OUTPUT_BUCKET"]>>,
         name |-> "StageToS3",
         taskType |-> "StageDataToS3",
         containerDescriptors |-> <<[properties |-> [domain |-> "raid"]]>>]>>,
     name |-> "aop_to_s3"]

\* The keyword parameters' default values (the def line of launch_aop_to_s3)
AopDefaults ==
    [bands |-> "Auto", ortho_epsg |-> "EPSG:4326", enable_pansharpen |-> "false",
     enable_acomp |-> "false", enable_dra |-> "false"]

\* The value a keyword parameter has in the call: the caller's, or the default
Param(kwargs, name) == IF name \in DOMAIN kwargs THEN kwargs[name] ELSE AopDefaults[name]

\* sep.join(parts)
RECURSIVE Join(_, _)
Join(sep, parts) ==
    IF parts = <<>> THEN ""
    ELSE IF Len(parts) = 1 THEN parts[1]
    ELSE parts[1] \o sep \o Join(sep, Tail(parts))

\* output_location_final
OutputLocationFinal(output_location) ==
    "s3://" \o Join("/", <<s3_info.bucket, s3_info.prefix, output_location>>)

\* The substitutions with the positions of enable_acomp and enable_dra exchanged
AopToS3WorkflowSwapped(input_location, output_location, kwargs) ==
    [AopToS3Template EXCEPT
        !.tasks[1].inputs[1].value = input_location,
        !.tasks[1].inputs[2].value = Param(kwargs, "bands"),
        !.tasks[1].inputs[3].value = Param(kwargs, "enable_dra"),
        !.tasks[1].inputs[4].value = Param(kwargs, "enable_acomp"),
        !.tasks[1].inputs[5].value = Param(kwargs, "ortho_epsg"),
        !.tasks[1].inputs[6].value = Param(kwargs, "enable_pansharpen"),
        !.tasks[2].inputs[2].value = OutputLocationFinal(output_location)]

\* The workflow dictionary handed to launch
AopToS3Workflow(input_location, output_location, kwargs) ==
    [AopToS3Template EXCEPT
        !.tasks[1].inputs[1].value = input_location,
        !.tasks[1].inputs[2].value = Param(kwargs, "bands"),
        !.tasks[1].inputs[3].value = Param(kwargs, "enable_acomp"),
        !.tasks[1].inputs[4].value = Param(kwargs, "enable_dra"),
        !.tasks[1].inputs[5].value = Param(kwargs, "ortho_epsg"),
        !.tasks[1].inputs[6].value = Param(kwargs, "enable_pansharpen"),
        !.tasks[2].inputs[2].value = OutputLocationFinal(output_location)]

launch_aop_to_s3(input_location, output_location, kwargs, t) ==
    LET aop_to_s3 == AopToS3Workflow(input_location, output_location, kwargs)
        launched == launch(aop_to_s3, t)
    IN  Done(<<Debug("Launch workflow")>> \o launched.trace, launched.outcome)

(***************************************************************************)
(* The session's possible behaviours.                                      *)
(***************************************************************************)
BoundedSeq(S, n) == UNION {[1..k -> S] : k \in 0..n}

ObjectBodies ==
    {[id |-> w] : w \in WorkflowIds}
    \cup {[state |-> st] : st \in States}
    \cup {[batch_workflow_id |-> b] : b \in BatchIds}
    \cup {[Events |-> e] : e \in BoundedSeq(EventRecords, MaxEvents)}
    \cup {[message |-> "Not Found"],
          [name |-> "AOP_Strip_Processor", properties |-> [isPublic |-> TRUE, timeout |-> 36000]]}

Unset == [exc |-> "unset"]
Response(code, form, body) ==
    [exc |-> "none", status_code |-> code, form |-> form, text |-> body, body |-> body]

SessionRaises(e) ==
    /\ transport' = [exc |-> e, message |-> "not JSON serializable"]
    /\ last' = Idle
    /\ UNCHANGED <<s3_info, py3, handle>>

SessionAnswersText(code) ==
    /\ transport' = Response(code, "text", "server error")
    /\ last' = Idle
    /\ UNCHANGED <<s3_info, py3, handle>>

SessionAnswersArray(code) ==
    /\ transport' = Response(code, "array", <<"AOP_Strip_Processor", "StageDataToS3">>)
    /\ last' = Idle
    /\ UNCHANGED <<s3_info, py3, handle>>

SessionAnswersObject(code, body) ==
    /\ transport' = Response(code, "object", body)
    /\ last' = Idle
    /\ UNCHANGED <<s3_info, py3, handle>>

(***************************************************************************)
(* The calls.                                                              *)
(***************************************************************************)
Called(op, args, res) == [op |-> op, args |-> args, trace |-> res.trace, outcome |-> res.outcome]

\* What `x = f(...)` leaves in x: the value returned; x is untouched when f raises
Assigned(old, o) ==
    IF o.kind = "value" THEN o.value ELSE IF o.kind = "none" THEN None ELSE old

InputLocations == {"s3://in/path"}
OutputLocations == {"out/prefix"}
AopOverrides ==
    [bands |-> "MS", ortho_epsg |-> "EPSG:32633", enable_pansharpen |-> "true",
     enable_acomp |-> "yes", enable_dra |-> "on"]
\* no keyword given, one given, or all given
AopKwargs ==
    {[n \in S |-> AopOverrides[n]] :
        S \in {T \in SUBSET DOMAIN AopDefaults : Cardinality(T) \in {0, 1, Cardinality(DOMAIN AopDefaults)}}}

Launch(workflow) ==
    /\ transport # Unset
    /\ LET res == launch(workflow, transport)
       IN  /\ last' = Called("launch", [workflow |-> workflow], res)
           /\ handle' = Assigned(handle, res.outcome)
    /\ UNCHANGED <<s3_info, py3, transport>>

LaunchAopToS3(input_location, output_location, kwargs) ==
    /\ transport # Unset
    /\ LET res == launch_aop_to_s3(input_location, output_location, kwargs, transport)
       IN  /\ last' = Called("launch_aop_to_s3",
                             [input_location |-> input_location,
                              output_location |-> output_location, kwargs |-> kwargs], res)
           /\ handle' = Assigned(handle, res.outcome)
    /\ UNCHANGED <<s3_info, py3, transport>>

Query(op, args, res) ==
    /\ transport # Unset
    /\ last' = Called(op, args, res)
    /\ UNCHANGED <<s3_info, py3, transport, handle>>

Status(workflow_id) == Query("status", [workflow_id |-> workflow_id], status(workflow_id, transport))
Events(workflow_id) == Query("events", [workflow_id |-> workflow_id], events(workflow_id, transport))
Cancel(workflow_id) == Query("cancel", [workflow_id |-> workflow_id], cancel(workflow_id, transport))
ListTasks == Query("list_tasks", <<>>, list_tasks(transport))
DescribeTask(task_name) ==
    Query("describe_task", [task_name |-> task_name], describe_task(task_name, transport))
LaunchBatchWorkflow(batch_workflow) ==
    Query("launch_batch_workflow", [batch_workflow |-> batch_workflow],
          launch_batch_workflow(batch_workflow, transport))
BatchWorkflowStatus(batch_workflow_id) ==
    Query("batch_workflow_status", [batch_workflow_id |-> batch_workflow_id],
          batch_workflow_status(batch_workflow_id, transport))
BatchWorkflowCancel(batch_workflow_id) ==
    Query("batch_workflow_cancel", [batch_workflow_id |-> batch_workflow_id],
          batch_workflow_cancel(batch_workflow_id, transport))

Init ==
    /\ s3_info \in S3Infos
    /\ py3 \in BOOLEAN
    /\ transport = Unset
    /\ last = Idle
    /\ handle = None

Next ==
    \/ \E e \in {"TypeError", "ConnectionError"} : SessionRaises(e)
    \/ \E code \in StatusCodes : SessionAnswersText(code)
    \/ \E code \in StatusCodes : SessionAnswersArray(code)
    \/ \E code \in StatusCodes, body \in ObjectBodies : SessionAnswersObject(code, body)
    \/ \E w \in Workflows : Launch(w)
    \/ \E id \in WorkflowIds : Status(id)
    \/ \E id \in WorkflowIds : Events(id)
    \/ \E id \in WorkflowIds : Cancel(id)
    \/ ListTasks
    \/ \E name \in TaskNames : DescribeTask(name)
    \/ \E b \in BatchWorkflows : LaunchBatchWorkflow(b)
    \/ \E id \in BatchIds : BatchWorkflowStatus(id)
    \/ \E id \in BatchIds : BatchWorkflowCancel(id)
    \/ \E i \in InputLocations, o \in OutputLocations, k \in AopKwargs :
          LaunchAopToS3(i, o, k)

Spec == Init /\ [][Next]_vars

(***************************************************************************)
(* Properties.                                                             *)
(***************************************************************************)
Answered == transport.exc = "none"
Is2xx(code) == 200 <= code /\ code < 300
Is4xx5xx(code) == code \in 400..599
IsRequest(e) == e.call \in {"post", "get"}
RequestsOf(tr) == SelectSeq(tr, IsRequest)
Reads(tr) == SelectSeq(tr, LAMBDA e : e.call = "json")
Debugs(tr) == SelectSeq(tr, LAMBDA e : e.call = "debug")
Failed == last.outcome.kind = "raise"
FailedWith(code) == last.outcome = [kind |-> "raise", exc |-> "HTTPError", code |-> code]

\* C1 as stated: cancel raises if and only if the response status is not 2xx.
C1_CancelRaisesIffNon2xx ==
    (last.op = "cancel" /\ Answered) => (Failed <=> ~Is2xx(transport.status_code))

\* C1 as amended: cancel raises (HTTPError carrying the status) if and only if
\* the response status is 4xx or 5xx; for every other status, 1xx and 3xx
\* included, it returns normally with no value.
C1_CancelRaisesIff4xx5xx ==
    (last.op = "cancel" /\ Answered) =>
        IF Is4xx5xx(transport.status_code)
        THEN FailedWith(transport.status_code)
        ELSE last.outcome = ReturnNone

C1_Witness ==
    /\ last.op = "cancel" /\ Answered
    /\ transport.status_code = 304
    /\ last.outcome = ReturnNone

\* C2: when the GET of status is answered with a non-2xx response, status fails
\* with a request error carrying the status code and returns no state value.
C2_StatusFailsOnNon2xx ==
    (last.op = "status" /\ Answered /\ ~Is2xx(transport.status_code)) =>
        FailedWith(transport.status_code)

\* The part of a call's trace that launch produced
LaunchTrace == IF last.op = "launch_aop_to_s3" THEN Tail(last.trace) ELSE last.trace
Launched == last.op \in {"launch", "launch_aop_to_s3"}
Diagnosed ==
    /\ Len(LaunchTrace) = 3
    /\ LaunchTrace[1].call = "post"
    /\ LaunchTrace[2] = Stdout("GBDX API Status Code: %s", transport.status_code)
    /\ LaunchTrace[3] = Stdout("GBDX API Response: %s", transport.text)
    /\ FailedWith(transport.status_code)
    /\ Reads(LaunchTrace) = <<>>

\* C3 as stated: when the POST of launch is answered non-2xx, launch prints the
\* status code, then the body, then fails with the request error; no handle is
\* returned and the response JSON is never read.
C3_LaunchDiagnosesNon2xx ==
    (Launched /\ Answered /\ ~Is2xx(transport.status_code)) => Diagnosed

\* C3 as amended: when the POST of launch is answered 4xx or 5xx, launch prints
\* the status code, then the body, then fails with the request error; no handle
\* is returned and the response JSON is never read.
C3_LaunchDiagnoses4xx5xx ==
    (Launched /\ Answered /\ Is4xx5xx(transport.status_code)) => Diagnosed

C3_Witness ==
    /\ last.op = "launch" /\ Answered
    /\ transport.status_code = 500 /\ transport.form = "text"
    /\ Diagnosed

\* C4: on a 2xx answer whose JSON object has `id`, launch returns exactly that
\* id; status called with the handle the caller got from launch sends its one
\* GET to that workflow's URL and, on a 2xx answer whose JSON object has `state`,
\* returns that value unchanged, whatever it is.
C4_LaunchThenStatusPassThrough ==
    /\ (/\ last.op = "launch" /\ Answered /\ Is2xx(transport.status_code)
        /\ transport.form = "object" /\ "id" \in DOMAIN transport.body)
       => (last.outcome = Return(transport.body.id) /\ handle = transport.body.id)
    /\ (last.op = "status" /\ handle # None /\ last.args.workflow_id = handle)
       => /\ RequestsOf(last.trace) = <<Get(WorkflowsUrl \o "/" \o handle)>>
          /\ (/\ Answered /\ Is2xx(transport.status_code)
              /\ transport.form = "object" /\ "state" \in DOMAIN transport.body)
             => last.outcome = Return(transport.body.state)

C4_Witness ==
    /\ last.op = "status" /\ handle \in WorkflowIds /\ last.args.workflow_id = handle
    /\ Answered /\ transport.status_code = 200
    /\ last.outcome = Return("not-a-known-state")

\* The value of a keyword parameter of launch_aop_to_s3: the caller's, or the
\* documented default ("Auto", "false", "false", "EPSG:4326", "false")
C5_Defaulted(kwargs, name) ==
    IF name \in DOMAIN kwargs THEN kwargs[name]
    ELSE CASE name = "bands" -> "Auto"
           [] name = "enable_acomp" -> "false"
           [] name = "enable_dra" -> "false"
           [] name = "ortho_epsg" -> "EPSG:4326"
           [] name = "enable_pansharpen" -> "false"

\* C5: the payload launch_aop_to_s3 posts has two tasks; every input of the
\* first task holds the parameter of its own name (data holds input_location),
\* defaults included; the second task's destination is
\* s3://{bucket}/{prefix}/{output_location}; every other field is the
\* template's; and the call ends as launch ends on that payload.
C5_AopPayload ==
    last.op = "launch_aop_to_s3" =>
        LET a == last.args
            sent == last.trace[2]
            p == sent.json
            ins == p.tasks[1].inputs
            outs == p.tasks[2].inputs
        IN  /\ sent.call = "post" /\ sent.url = WorkflowsUrl
            /\ Len(p.tasks) = 2
            /\ {ins[i].name : i \in DOMAIN ins} =
                   {"data", "bands", "enable_acomp", "enable_dra", "ortho_epsg",
                    "enable_pansharpen"}
            /\ \A i \in DOMAIN ins :
                   ins[i].value = IF ins[i].name = "data" THEN a.input_location
                                  ELSE C5_Defaulted(a.kwargs, ins[i].name)
            /\ \E i \in DOMAIN outs : outs[i].name = "destination"
            /\ \A i \in DOMAIN outs :
                   outs[i].name = "destination" =>
                       outs[i].value = "s3://" \o s3_info.bucket \o "/" \o s3_info.prefix
                                           \o "/" \o a.output_location
            /\ [p EXCEPT
                  !.tasks[1].inputs =
                      [i \in DOMAIN ins |->
                          [ins[i] EXCEPT !.value = AopToS3Template.tasks[1].inputs[i].value]],
                  !.tasks[2].inputs[2].value = "OUTPUT_BUCKET"] = AopToS3Template
            /\ last.outcome = launch(p, transport).outcome

C5_Witness ==
    /\ last.op = "launch_aop_to_s3"
    /\ DOMAIN last.args.kwargs = {}
    /\ last.args.input_location = "s3://in/path" /\ last.args.output_location = "out/prefix"
    /\ last.trace[2].json.tasks[2].inputs[2].value
           = "s3://gbd-customer-data/acct-1/out/prefix"
    /\ last.outcome.kind = "value"

\* C6: whenever the answer is a JSON object with an `Events` field, events
\* returns exactly that field's value: the same records in the same order.
C6_EventsVerbatim ==
    (/\ last.op = "events" /\ Answered
     /\ transport.form = "object" /\ "Events" \in DOMAIN transport.body)
    => last.outcome = Return(transport.body.Events)

C6_Witness ==
    /\ last.op = "events" /\ Answered
    /\ last.outcome = Return(<<[type |-> "submitted"], [type |-> "scheduled"]>>)

\* C7 as stated: describe_task fails whenever the answer is non-2xx, and
\* otherwise returns the JSON body unchanged.
C7_DescribeTaskFailsOnNon2xx ==
    (last.op = "describe_task" /\ Answered) =>
        IF ~Is2xx(transport.status_code) THEN Failed
        ELSE transport.form # "text" => last.outcome = Return(transport.body)

\* C7 as amended: describe_task fails (HTTPError carrying the status) whenever
\* the answer is 4xx or 5xx, and otherwise returns the JSON body unchanged; it
\* never returns a body from a 4xx or 5xx response.
C7_DescribeTaskFailsOn4xx5xx ==
    (last.op = "describe_task" /\ Answered) =>
        IF Is4xx5xx(transport.status_code) THEN FailedWith(transport.status_code)
        ELSE transport.form # "text" => last.outcome = Return(transport.body)

C7_Witness ==
    /\ last.op = "describe_task" /\ Answered
    /\ transport.status_code = 304 /\ transport.form = "object"
    /\ last.outcome = Return(transport.body)

\* C8: every call makes exactly one request on the session and ends with a
\* result or an error (cancel's result is no value).
C8_OneRequestResultOrError ==
    last.op # "idle" =>
        /\ Len(RequestsOf(last.trace)) = 1
        /\ \/ last.outcome.kind \in {"value", "raise"}
           \/ last.op = "cancel" /\ last.outcome = ReturnNone

\* C9: when the session's post raises TypeError inside launch or
\* launch_batch_workflow, the call writes one debug line and returns None; any
\* other error the session raises is propagated unchanged.
C9_TypeErrorSwallowed ==
    (last.op \in {"launch", "launch_batch_workflow"} /\ ~Answered) =>
        IF transport.exc = "TypeError"
        THEN last.outcome = ReturnNone /\ Len(Debugs(last.trace)) = 1
        ELSE last.outcome = Raise(transport.exc)

\* C10: whatever the status of the answer, when its body is JSON
\* batch_workflow_cancel returns that body, after one POST without a body to
\* the batch's cancel URL.
C10_BatchCancelUnchecked ==
    (last.op = "batch_workflow_cancel" /\ Answered /\ transport.form # "text") =>
        /\ last.outcome = Return(transport.body)
        /\ RequestsOf(last.trace) =
               <<Post(BatchWorkflowsUrl \o "/" \o last.args.batch_workflow_id \o "/cancel")>>

C10_Witness ==
    /\ last.op = "batch_workflow_cancel" /\ Answered
    /\ transport.status_code = 500 /\ transport.form = "object"
    /\ last.outcome = Return(transport.body)

=============================================================================
